---- MODULE Spec2Model ----
(***************************************************************************)
(* Gobblet Gobblers over MQTT (gobletgame.go): every terminal runs the     *)
(* same program, keeps the game in the package variables board and         *)
(* playerTurn, publishes the whole game as a retained JSON snapshot after  *)
(* every local action and replaces its game by every snapshot it receives. *)
(*                                                                         *)
(* One client = two execution contexts: the main goroutine (pc) and the    *)
(* MQTT delivery goroutine that runs onMessageReceived (cb).  Only         *)
(* onMessageReceived and the first three lines of publishMove take mu; the *)
(* main goroutine reads and writes board and playerTurn without it, so a   *)
(* step of the model is one statement of the main goroutine or one         *)
(* assignment of the callback.                                             *)
(*                                                                         *)
(* The message bus is the environment: a topic with one retained message,  *)
(* and per subscription a FIFO of messages in flight.  Every handler       *)
(* passed to Subscribe is invoked for every message of the topic, a new    *)
(* subscription is first sent the retained message, and a publisher        *)
(* subscribed to the topic receives its own publishes.                     *)
(***************************************************************************)
EXTENDS Integers, Sequences, FiniteSets, TLC

\* ------------------------------------------------------------------ bounds
\* The commands the users of a session under way type, all clients together.
MaxActions == 2
\* The same where behaviours are checked under fairness.
MaxFairActions == 1
\* The same where the rules of placePiece and movePiece are checked on several
\* positions.
MaxRuleActions == 1

\* ------------------------------------------------------------- the program
Clients == {"a", "b"}

\* The values typed at "Enter Player Number (1 , 2) or (3 for Spectating)":
\* the user of client a plays as player 1, the user of client b plays as
\* player 2 or watches.
Roles(c) == IF c = "a" THEN {1} ELSE {2, 3}

Idx == 0..2

Gobblet(size, owner) == [Size |-> size, Owner |-> owner]

\* var board Board: the zero value, nine empty stacks.
EmptyBoard == [i \in Idx |-> [j \in Idx |-> <<>>]]

Top(stack) == stack[Len(stack)]

\* checkLine that compares the owners of the first two tops only.
checkLineTwo(a, b, c) ==
    IF Len(a) > 0 /\ Len(b) > 0 /\ Len(c) > 0
       /\ Top(a).Owner = Top(b).Owner
    THEN Top(a).Owner
    ELSE 0

checkLine(a, b, c) ==
    IF Len(a) > 0 /\ Len(b) > 0 /\ Len(c) > 0
       /\ Top(a).Owner = Top(b).Owner /\ Top(b).Owner = Top(c).Owner
    THEN Top(a).Owner
    ELSE 0

\* The lines in the order checkWin tries them: row 0, column 0, row 1,
\* column 1, row 2, column 2, the two diagonals.
WinLines ==
    << <<0,0, 0,1, 0,2>>, <<0,0, 1,0, 2,0>>,
       <<1,0, 1,1, 1,2>>, <<0,1, 1,1, 2,1>>,
       <<2,0, 2,1, 2,2>>, <<0,2, 1,2, 2,2>>,
       <<0,0, 1,1, 2,2>>, <<0,2, 1,1, 2,0>> >>

LineWinner(b, l) == checkLine(b[l[1]][l[2]], b[l[3]][l[4]], b[l[5]][l[6]])

RECURSIVE FirstWinner(_, _)
FirstWinner(b, k) ==
    IF k > Len(WinLines) THEN 0
    ELSE IF LineWinner(b, WinLines[k]) # 0 THEN LineWinner(b, WinLines[k])
    ELSE FirstWinner(b, k + 1)

checkWin(b) == FirstWinner(b, 1)

\* GameState and its JSON form: json.Marshal writes the [3][3]Stack as three
\* arrays of three arrays under "Board"; json.Unmarshal reads them back.
GameState(b, turn, w) == [Board |-> b, PlayerTurn |-> turn, Winner |-> w]

Marshal(st) ==
    [Board |-> [i \in 1..3 |-> [j \in 1..3 |-> st.Board[i-1][j-1]]],
     PlayerTurn |-> st.PlayerTurn,
     Winner |-> st.Winner]

Unmarshal(data) ==
    [Board |-> [i \in Idx |-> [j \in Idx |-> data.Board[i+1][j+1]]],
     PlayerTurn |-> data.PlayerTurn,
     Winner |-> data.Winner]

\* json.Unmarshal returns no error: the payload is the JSON form of a
\* GameState.
Decodes(data) == DOMAIN data = {"Board", "PlayerTurn", "Winner"}

\* A payload that json.Unmarshal refuses.
Garbage == [Payload |-> "not a GameState"]


\* ------------------------------------------------------------------- state
VARIABLES
    retained,    \* the topic's retained message: <<>> or <<data>>
    inbox,       \* per client: messages in flight to onMessageReceived
    loadq,       \* per client: messages in flight to loadGameState's handler
    stateChan,   \* per client: loadGameState's channel of capacity 1
    pc,          \* per client: the statement the main goroutine is at
    board,       \* per client: var board
    playerTurn,  \* per client: var playerTurn
    playerID,    \* per client: var playerID
    mu,          \* per client: var mu, "free" or the goroutine holding it
    cb,          \* per client: where the delivery goroutine is in onMessageReceived
    cbState,     \* per client: onMessageReceived's local state
    args,        \* per client: the action scanned by main and its operands
    top,         \* per client: movePiece's local top
    winner,      \* per client: the local winner of saveGameState / publishMove
    state,       \* per client: the local state of loadGameState / publishMove
    cmds,        \* commands the users have yet to type
    pubs,        \* per client: what it published since its last input, in order
    sawWinner    \* per client: how it first came by a snapshot with a winner

vars == <<retained, inbox, loadq, stateChan, pc, board, playerTurn, playerID, mu,
          cb, cbState, args, top, winner, state, cmds, pubs, sawWinner>>

busVars == <<retained, inbox, loadq>>
cbVars == <<cb, cbState>>
localVars == <<args, top, winner, state>>

NoState == GameState(EmptyBoard, 0, 0)
NoTop == Gobblet(0, 0)
NoArgs == [action |-> 0, row |-> 0, col |-> 0, size |-> 0, toRow |-> 0, toCol |-> 0]

\* A game in progress: four placements made, player 1 to play.
MidBoard ==
    [EmptyBoard EXCEPT ![0][0] = <<Gobblet(1, 1)>>, ![0][1] = <<Gobblet(2, 1)>>,
                       ![1][0] = <<Gobblet(1, 2)>>, ![1][1] = <<Gobblet(2, 2)>>]

\* The same game after player 1 has completed row 0.
WonBoard == [MidBoard EXCEPT ![0][2] = <<Gobblet(3, 1)>>]

\* Another game in progress: player 1 has placed three pieces of size 3,
\* player 2 one piece of each size, player 1 to play.
BudgetBoard ==
    [EmptyBoard EXCEPT ![0][0] = <<Gobblet(3, 1)>>, ![0][1] = <<Gobblet(3, 1)>>,
                       ![2][0] = <<Gobblet(3, 1)>>, ![1][0] = <<Gobblet(1, 2)>>,
                       ![1][1] = <<Gobblet(2, 2)>>, ![2][2] = <<Gobblet(3, 2)>>]

\* A third: player 1 has covered the size 1 piece of player 2 at (1,1) and
\* the size 2 piece of player 2 at (0,1), player 1 to play.
StackBoard ==
    [EmptyBoard EXCEPT ![0][0] = <<Gobblet(1, 1)>>,
                       ![0][1] = <<Gobblet(2, 2), Gobblet(3, 1)>>,
                       ![1][1] = <<Gobblet(1, 2), Gobblet(2, 1)>>,
                       ![1][0] = <<Gobblet(3, 2)>>]

\* What the broker may hold for the topic when the first client connects:
\* nothing, the last snapshot of an earlier run of the same Game ID, or what
\* another program has published there.
InitRetained ==
    { <<>>,
      <<Marshal(GameState(MidBoard, 1, 0))>>,
      <<Marshal(GameState(WonBoard, 1, 1))>>,
      <<Garbage>> }

\* Every client at the start of main, the broker holding one of rs for the
\* topic; the users go on to type n commands.
Joining(rs, n) ==
    /\ retained \in rs
    /\ inbox = [c \in Clients |-> <<>>]
    /\ loadq = [c \in Clients |-> <<>>]
    /\ stateChan = [c \in Clients |-> <<>>]
    /\ pc = [c \in Clients |-> "start"]
    /\ board = [c \in Clients |-> EmptyBoard]
    /\ playerTurn = [c \in Clients |-> 1]
    /\ playerID = [c \in Clients |-> 0]
    /\ mu = [c \in Clients |-> "free"]
    /\ cb = [c \in Clients |-> "idle"]
    /\ cbState = [c \in Clients |-> NoState]
    /\ args = [c \in Clients |-> NoArgs]
    /\ top = [c \in Clients |-> NoTop]
    /\ winner = [c \in Clients |-> 0]
    /\ state = [c \in Clients |-> NoState]
    /\ cmds = n
    /\ pubs = [c \in Clients |-> <<>>]
    /\ sawWinner = [c \in Clients |-> "no"]

\* The users type no command.
InitStart == Joining(InitRetained, 0)

\* --------------------------------------------------------------- the bus
\* The client is connected and onMessageReceived is subscribed.
Subscribed(c) == pc[c] \notin {"start", "exited"}

\* loadGameState's handler is subscribed and its channel is still read.
Loading(c) == pc[c] = "select"

\* How the client first came by a snapshot with a winner, "no" while it has not.
Saw(old, st, how) == IF old = "no" /\ st.Winner # 0 THEN how ELSE old

\* mqttClient.Publish(topic, 1, true, data): the broker keeps data as the
\* retained message and forwards it to every subscription.
Publish(c, st, src) ==
    /\ retained' = <<Marshal(st)>>
    /\ inbox' = [d \in Clients |->
                    IF Subscribed(d) THEN Append(inbox[d], Marshal(st)) ELSE inbox[d]]
    /\ loadq' = [d \in Clients |->
                    IF Loading(d) THEN Append(loadq[d], Marshal(st)) ELSE loadq[d]]
    /\ pubs' = [pubs EXCEPT ![c] = Append(@, [state |-> st, src |-> src])]
    /\ sawWinner' = [sawWinner EXCEPT ![c] = Saw(@, st, "published")]


\* ---------------------------------------------------------- bootstrapping
\* setupMQTT: connect, then Subscribe(topic, 1, onMessageReceived).
setupMQTT(c) ==
    /\ pc[c] = "start"
    /\ pc' = [pc EXCEPT ![c] = "load"]
    /\ inbox' = [inbox EXCEPT ![c] = @ \o retained]
    /\ UNCHANGED <<retained, loadq, stateChan, board, playerTurn, playerID, mu,
                   cbVars, localVars, cmds, pubs, sawWinner>>

\* loadGameState up to the select: make the channel, subscribe the handler.
loadSubscribe(c) ==
    /\ pc[c] = "load"
    /\ pc' = [pc EXCEPT ![c] = "select"]
    /\ loadq' = [loadq EXCEPT ![c] = retained]
    /\ UNCHANGED <<retained, inbox, stateChan, board, playerTurn, playerID, mu,
                   cbVars, localVars, cmds, pubs, sawWinner>>

\* loadGameState's handler: decode, return on an error, else a send that does
\* not block.
loadHandler(c) ==
    /\ Loading(c)
    /\ Len(loadq[c]) > 0
    /\ loadq' = [loadq EXCEPT ![c] = Tail(@)]
    /\ stateChan' = [stateChan EXCEPT ![c] =
                        IF Decodes(Head(loadq[c])) /\ Len(@) = 0
                        THEN <<Unmarshal(Head(loadq[c]))>> ELSE @]
    /\ UNCHANGED <<retained, inbox, pc, board, playerTurn, playerID, mu,
                   cbVars, localVars, cmds, pubs, sawWinner>>

\* case state := <-stateChan: board = state.Board
loadAdoptBoard(c) ==
    /\ pc[c] = "select"
    /\ Len(stateChan[c]) > 0
    /\ state' = [state EXCEPT ![c] = Head(stateChan[c])]
    /\ board' = [board EXCEPT ![c] = Head(stateChan[c]).Board]
    /\ stateChan' = [stateChan EXCEPT ![c] = <<>>]
    /\ loadq' = [loadq EXCEPT ![c] = <<>>]
    /\ pc' = [pc EXCEPT ![c] = "adopt_turn"]
    /\ UNCHANGED <<retained, inbox, playerTurn, playerID, mu, cbVars,
                   args, top, winner, cmds, pubs, sawWinner>>

\* playerTurn = state.PlayerTurn; report a winner; return true
loadAdoptTurn(c) ==
    /\ pc[c] = "adopt_turn"
    /\ playerTurn' = [playerTurn EXCEPT ![c] = state[c].PlayerTurn]
    /\ sawWinner' = [sawWinner EXCEPT ![c] = Saw(@, state[c], "loaded")]
    /\ state' = [state EXCEPT ![c] = NoState]
    /\ pc' = [pc EXCEPT ![c] = "role"]
    /\ UNCHANGED <<busVars, stateChan, board, playerID, mu, cbVars,
                   args, top, winner, cmds, pubs>>

\* case <-time.After(2 * time.Second): return false
loadTimeout(c) ==
    /\ pc[c] = "select"
    /\ pc' = [pc EXCEPT ![c] = "c_sg_check"]
    /\ stateChan' = [stateChan EXCEPT ![c] = <<>>]
    /\ loadq' = [loadq EXCEPT ![c] = <<>>]
    /\ UNCHANGED <<retained, inbox, board, playerTurn, playerID, mu, cbVars,
                   localVars, cmds, pubs, sawWinner>>

\* ---------------------------------------------------------- saveGameState
\* winner := checkWin()
saveCheck(c, from, to) ==
    /\ pc[c] = from
    /\ winner' = [winner EXCEPT ![c] = checkWin(board[c])]
    /\ pc' = [pc EXCEPT ![c] = to]
    /\ UNCHANGED <<busVars, stateChan, board, playerTurn, playerID, mu, cbVars,
                   args, top, state, cmds, pubs, sawWinner>>

\* state := GameState{board, playerTurn, winner}; Marshal; Publish
savePublish(c, from, to) ==
    /\ pc[c] = from
    /\ Publish(c, GameState(board[c], playerTurn[c], winner[c]), "saveGameState")
    /\ winner' = [winner EXCEPT ![c] = 0]
    /\ pc' = [pc EXCEPT ![c] = to]
    /\ UNCHANGED <<stateChan, board, playerTurn, playerID, mu, cbVars,
                   args, top, state, cmds>>

\* ------------------------------------------------------------ publishMove
\* mu.Lock(); winner := checkWin(); state := GameState{...}; mu.Unlock();
\* Marshal; Publish.  The snapshot is taken under mu; what follows the
\* Unlock reads no shared variable, so the whole call is one step.
publishMove(c, from, to) ==
    /\ pc[c] = from
    /\ mu[c] = "free"
    /\ Publish(c, GameState(board[c], playerTurn[c], checkWin(board[c])), "publishMove")
    /\ pc' = [pc EXCEPT ![c] = to]
    /\ UNCHANGED <<stateChan, board, playerTurn, playerID, mu, cbVars,
                   localVars, cmds>>

\* main: if !loadGameState() { saveGameState() }
createSession(c) ==
    \/ saveCheck(c, "c_sg_check", "c_sg_pub")
    \/ savePublish(c, "c_sg_pub", "role")

\* fmt.Scan(&playerID)
chooseRole(c) ==
    /\ pc[c] = "role"
    /\ \E r \in Roles(c) : playerID' = [playerID EXCEPT ![c] = r]
    /\ pc' = [pc EXCEPT ![c] = "loop"]
    /\ UNCHANGED <<busVars, stateChan, board, playerTurn, mu, cbVars,
                   localVars, cmds, pubs, sawWinner>>


\* ------------------------------------------------------------ the main loop
\* if playerID == 3 { continue }; for playerTurn != playerID { time.Sleep }
waitTurn(c) ==
    /\ pc[c] = "loop"
    /\ playerID[c] # 3
    /\ playerTurn[c] = playerID[c]
    /\ pc' = [pc EXCEPT ![c] = "checkwin"]
    /\ UNCHANGED <<busVars, stateChan, board, playerTurn, playerID, mu, cbVars,
                   localVars, cmds, pubs, sawWinner>>

\* if winner := checkWin(); winner != 0 { os.Exit(0) }
mainCheckWin(c) ==
    /\ pc[c] = "checkwin"
    /\ IF checkWin(board[c]) # 0
       THEN /\ pc' = [pc EXCEPT ![c] = "exited"]
            /\ inbox' = [inbox EXCEPT ![c] = <<>>]
            /\ cb' = [cb EXCEPT ![c] = "idle"]
            /\ cbState' = [cbState EXCEPT ![c] = NoState]
       ELSE /\ pc' = [pc EXCEPT ![c] = "input"]
            /\ UNCHANGED <<inbox, cbVars>>
    /\ UNCHANGED <<retained, loadq, stateChan, board, playerTurn, playerID, mu,
                   localVars, cmds, pubs, sawWinner>>

\* The commands a user types in this model: "1 row col size" and
\* "2 fromRow fromCol toRow toCol", and one action that is neither.
PlaceInputs ==
    { [NoArgs EXCEPT !.action = 1, !.row = i[1], !.col = i[2], !.size = i[3]] :
        i \in { <<0, 2, 3>>, <<1, 2, 3>>, <<0, 0, 1>>, <<0, 0, 2>>,
                <<3, 0, 1>>, <<0, -1, 1>>, <<2, 2, 4>>, <<2, 2, 0>> } }

MoveInputs ==
    { [NoArgs EXCEPT !.action = 2, !.row = i[1], !.col = i[2], !.toRow = i[3], !.toCol = i[4]] :
        i \in { <<0, 1, 0, 2>>,
                <<0, 1, 0, 3>>, <<-1, 1, 0, 2>>, <<2, 1, 0, 2>>, <<1, 0, 0, 2>>,
                <<0, 0, 0, 1>>, <<0, 1, 0, 1>> } }

Inputs == PlaceInputs \cup MoveInputs \cup {[NoArgs EXCEPT !.action = 9]}

InBounds(i) == ~(i < 0 \/ i >= 3)

\* placePiece with > for >= in the comparison of sizes.
placeOkSameSize(b, in) ==
    /\ ~(in.size < 1 \/ in.size > 3)
    /\ InBounds(in.row) /\ InBounds(in.col)
    /\ ~(Len(b[in.row][in.col]) > 0 /\ Top(b[in.row][in.col]).Size > in.size)

\* placePiece up to the append: the three refusals.
placeOk(b, in) ==
    /\ ~(in.size < 1 \/ in.size > 3)
    /\ InBounds(in.row) /\ InBounds(in.col)
    /\ ~(Len(b[in.row][in.col]) > 0 /\ Top(b[in.row][in.col]).Size >= in.size)

\* placePiece that puts the new piece in the place of the stack.
placeReplace(c) ==
    /\ pc[c] = "place_append"
    /\ board' = [board EXCEPT ![c][args[c].row][args[c].col] =
                    <<Gobblet(args[c].size, playerTurn[c])>>]
    /\ pc' = [pc EXCEPT ![c] = "a_sg_check"]
    /\ UNCHANGED <<busVars, stateChan, playerTurn, playerID, mu, cbVars,
                   localVars, cmds, pubs, sawWinner>>

\* board[row][col] = append(board[row][col], Gobblet{Size: size, Owner: playerTurn})
placeAppend(c) ==
    /\ pc[c] = "place_append"
    /\ board' = [board EXCEPT ![c][args[c].row][args[c].col] =
                    Append(@, Gobblet(args[c].size, playerTurn[c]))]
    /\ pc' = [pc EXCEPT ![c] = "a_sg_check"]
    /\ UNCHANGED <<busVars, stateChan, playerTurn, playerID, mu, cbVars,
                   localVars, cmds, pubs, sawWinner>>

\* movePiece up to the removal: the four refusals.
moveOk(b, turn, in) ==
    /\ InBounds(in.row) /\ InBounds(in.col) /\ InBounds(in.toRow) /\ InBounds(in.toCol)
    /\ Len(b[in.row][in.col]) # 0
    /\ Top(b[in.row][in.col]).Owner = turn
    /\ ~(Len(b[in.toRow][in.toCol]) > 0
         /\ Top(b[in.toRow][in.toCol]).Size >= Top(b[in.row][in.col]).Size)

\* main from fmt.Scan(&action) to the first change of the board: the scan of
\* the action and its operands, then the refusals of placePiece or of
\* movePiece, which read the board once the input is there.  A refused
\* command ends the iteration of the loop, and its operands with it.
scanInput(c) ==
    /\ pc[c] = "input"
    /\ cmds > 0
    /\ cmds' = cmds - 1
    /\ \E in \in Inputs :
          /\ args' = [args EXCEPT ![c] =
                        IF (in.action = 1 /\ placeOk(board[c], in))
                           \/ (in.action = 2 /\ moveOk(board[c], playerTurn[c], in))
                        THEN in ELSE NoArgs]
          /\ top' = [top EXCEPT ![c] =
                       IF in.action = 2 /\ moveOk(board[c], playerTurn[c], in)
                       THEN Top(board[c][in.row][in.col]) ELSE NoTop]
          /\ pc' = [pc EXCEPT ![c] =
                       CASE in.action = 1 /\ placeOk(board[c], in) -> "place_append"
                         [] in.action = 2 /\ moveOk(board[c], playerTurn[c], in) -> "move_pop"
                         [] OTHER -> "loop"]
    /\ pubs' = [pubs EXCEPT ![c] = <<>>]
    /\ UNCHANGED <<busVars, stateChan, board, playerTurn, playerID, mu, cbVars,
                   winner, state, sawWinner>>

\* s[:len(s)-1]; on an empty slice Go panics and the process ends.
movePop(c) ==
    /\ pc[c] = "move_pop"
    /\ IF Len(board[c][args[c].row][args[c].col]) = 0
       THEN /\ pc' = [pc EXCEPT ![c] = "exited"]
            /\ inbox' = [inbox EXCEPT ![c] = <<>>]
            /\ cb' = [cb EXCEPT ![c] = "idle"]
            /\ cbState' = [cbState EXCEPT ![c] = NoState]
            /\ UNCHANGED board
       ELSE /\ board' = [board EXCEPT ![c][args[c].row][args[c].col] =
                            SubSeq(@, 1, Len(@) - 1)]
            /\ pc' = [pc EXCEPT ![c] = "move_push"]
            /\ UNCHANGED <<inbox, cbVars>>
    /\ UNCHANGED <<retained, loadq, stateChan, playerTurn, playerID, mu,
                   localVars, cmds, pubs, sawWinner>>

\* board[toRow][toCol] = append(board[toRow][toCol], top)
movePush(c) ==
    /\ pc[c] = "move_push"
    /\ board' = [board EXCEPT ![c][args[c].toRow][args[c].toCol] = Append(@, top[c])]
    /\ top' = [top EXCEPT ![c] = NoTop]
    /\ pc' = [pc EXCEPT ![c] = "a_sg_check"]
    /\ UNCHANGED <<busVars, stateChan, playerTurn, playerID, mu, cbVars,
                   args, winner, state, cmds, pubs, sawWinner>>

\* winner := checkWin(); if winner != 0 { return true }
actionCheckWin(c) ==
    /\ pc[c] = "a_check"
    /\ pc' = [pc EXCEPT ![c] = IF checkWin(board[c]) # 0 THEN "loop" ELSE "a_flip"]
    /\ UNCHANGED <<busVars, stateChan, board, playerTurn, playerID, mu, cbVars,
                   localVars, cmds, pubs, sawWinner>>

\* playerTurn = 3 - playerTurn
switchTurn(c) ==
    /\ pc[c] = "a_flip"
    /\ playerTurn' = [playerTurn EXCEPT ![c] = 3 - @]
    /\ pc' = [pc EXCEPT ![c] = "a_pm2"]
    /\ UNCHANGED <<busVars, stateChan, board, playerID, mu, cbVars,
                   localVars, cmds, pubs, sawWinner>>

\* The common tail of placePiece and movePiece, from saveGameState() on.
afterMutation(c) ==
    \/ saveCheck(c, "a_sg_check", "a_sg_pub")
    \/ savePublish(c, "a_sg_pub", "a_pm1")
    \/ publishMove(c, "a_pm1", "a_check")
    \/ actionCheckWin(c)
    \/ switchTurn(c)
    \/ publishMove(c, "a_pm2", "loop")

\* ------------------------------------------------------- onMessageReceived
\* onMessageReceived that goes on after the error of json.Unmarshal with the
\* zero GameState.
receiveBoardAnyway(c) ==
    /\ Subscribed(c)
    /\ cb[c] = "idle"
    /\ Len(inbox[c]) > 0
    /\ mu[c] = "free"
    /\ inbox' = [inbox EXCEPT ![c] = Tail(@)]
    /\ LET st == IF Decodes(Head(inbox[c])) THEN Unmarshal(Head(inbox[c])) ELSE NoState
       IN  /\ cbState' = [cbState EXCEPT ![c] = st]
           /\ board' = [board EXCEPT ![c] = st.Board]
    /\ mu' = [mu EXCEPT ![c] = "cb"]
    /\ cb' = [cb EXCEPT ![c] = "turn"]
    /\ UNCHANGED <<retained, loadq, stateChan, pc, playerTurn, playerID,
                   localVars, cmds, pubs, sawWinner>>

\* mu.Lock(); json.Unmarshal; on an error return, which unlocks mu; else
\* board = state.Board
receiveBoard(c) ==
    /\ Subscribed(c)
    /\ cb[c] = "idle"
    /\ Len(inbox[c]) > 0
    /\ mu[c] = "free"
    /\ inbox' = [inbox EXCEPT ![c] = Tail(@)]
    /\ IF Decodes(Head(inbox[c]))
       THEN /\ mu' = [mu EXCEPT ![c] = "cb"]
            /\ cbState' = [cbState EXCEPT ![c] = Unmarshal(Head(inbox[c]))]
            /\ board' = [board EXCEPT ![c] = Unmarshal(Head(inbox[c])).Board]
            /\ cb' = [cb EXCEPT ![c] = "turn"]
       ELSE UNCHANGED <<mu, cbState, board, cb>>
    /\ UNCHANGED <<retained, loadq, stateChan, pc, playerTurn, playerID,
                   localVars, cmds, pubs, sawWinner>>

\* onMessageReceived's tail without the os.Exit(0): the client stays up after
\* a snapshot with a winner.
receiveTurnNoExit(c) ==
    /\ Subscribed(c)
    /\ cb[c] = "turn"
    /\ playerTurn' = [playerTurn EXCEPT ![c] = cbState[c].PlayerTurn]
    /\ cb' = [cb EXCEPT ![c] = "idle"]
    /\ cbState' = [cbState EXCEPT ![c] = NoState]
    /\ mu' = [mu EXCEPT ![c] = "free"]
    /\ sawWinner' = [sawWinner EXCEPT ![c] = Saw(@, cbState[c], "received")]
    /\ UNCHANGED <<pc, inbox, loadq, stateChan>>
    /\ UNCHANGED <<retained, board, playerID, localVars, cmds, pubs>>

\* playerTurn = state.PlayerTurn; if state.Winner != 0 { os.Exit(0) }; mu.Unlock()
receiveTurn(c) ==
    /\ Subscribed(c)
    /\ cb[c] = "turn"
    /\ playerTurn' = [playerTurn EXCEPT ![c] = cbState[c].PlayerTurn]
    /\ cb' = [cb EXCEPT ![c] = "idle"]
    /\ cbState' = [cbState EXCEPT ![c] = NoState]
    /\ mu' = [mu EXCEPT ![c] = "free"]
    /\ IF cbState[c].Winner # 0
       THEN /\ pc' = [pc EXCEPT ![c] = "exited"]
            /\ inbox' = [inbox EXCEPT ![c] = <<>>]
            /\ loadq' = [loadq EXCEPT ![c] = <<>>]
            /\ stateChan' = [stateChan EXCEPT ![c] = <<>>]
            /\ sawWinner' = [sawWinner EXCEPT ![c] = Saw(@, cbState[c], "received")]
       ELSE UNCHANGED <<pc, inbox, loadq, stateChan, sawWinner>>
    /\ UNCHANGED <<retained, board, playerID, localVars, cmds, pubs>>

onMessageReceived(c) == receiveBoard(c) \/ receiveTurn(c)

loadGameState(c) ==
    \/ loadSubscribe(c) \/ loadHandler(c)
    \/ loadAdoptBoard(c) \/ loadAdoptTurn(c) \/ loadTimeout(c)

movePiece(c) == movePop(c) \/ movePush(c)

bootstrap(c) == setupMQTT(c) \/ loadGameState(c) \/ createSession(c) \/ chooseRole(c)

play(c) ==
    \/ waitTurn(c) \/ mainCheckWin(c) \/ scanInput(c)
    \/ placeAppend(c) \/ movePiece(c) \/ afterMutation(c)

\* A session under way: both clients have joined, taken the retained snapshot
\* of the position b and chosen their roles, the messages q are still queued
\* for a's onMessageReceived, and the users go on to type n commands.
Session(b, q, n) ==
    /\ retained = <<Marshal(GameState(b, 1, 0))>>
    /\ board = [c \in Clients |-> b]
    /\ playerTurn = [c \in Clients |-> 1]
    /\ \E r \in Roles("b") : playerID = [c \in Clients |-> IF c = "a" THEN 1 ELSE r]
    /\ pc = [c \in Clients |-> "loop"]
    /\ inbox = [c \in Clients |-> IF c = "a" THEN q ELSE <<>>]
    /\ loadq = [c \in Clients |-> <<>>]
    /\ stateChan = [c \in Clients |-> <<>>]
    /\ mu = [c \in Clients |-> "free"]
    /\ cb = [c \in Clients |-> "idle"]
    /\ cbState = [c \in Clients |-> NoState]
    /\ args = [c \in Clients |-> NoArgs]
    /\ top = [c \in Clients |-> NoTop]
    /\ winner = [c \in Clients |-> 0]
    /\ state = [c \in Clients |-> NoState]
    /\ cmds = n
    /\ pubs = [c \in Clients |-> <<>>]
    /\ sawWinner = [c \in Clients |-> "no"]

\* Nothing is in flight.
Playing(b, n) == Session(b, <<>>, n)

InitPlay == Playing(MidBoard, MaxActions)

Init == InitStart \/ InitPlay

Next == \E c \in Clients : bootstrap(c) \/ play(c) \/ onMessageReceived(c)

Spec == Init /\ [][Next]_vars

\* The positions, besides MidBoard, on which the rules of placePiece and
\* movePiece are checked.
RuleBoards == {BudgetBoard, StackBoard}

InitRules == InitStart \/ \E b \in RuleBoards : Playing(b, MaxRuleActions)

RulesSpec == InitRules /\ [][Next]_vars

\* The boards on which checkWin is checked: every assignment of no top, a top
\* of player 1 or a top of player 2 to the nine cells, once with single
\* pieces of size 1 and once with tops of size 2 or 3 that cover a piece of
\* the other player.
Dressed(o, style) ==
    [i \in Idx |-> [j \in Idx |->
        IF o[<<i, j>>] = 0 THEN <<>>
        ELSE IF style = 1 THEN <<Gobblet(1, o[<<i, j>>])>>
        ELSE <<Gobblet(1, 3 - o[<<i, j>>]), Gobblet(2 + ((i + j) % 2), o[<<i, j>>])>>]]

LineBoards == {Dressed(o, style) : o \in [Idx \X Idx -> 0..2], style \in 1..2}

\* The sessions of InitStart, a session under way with one command to come,
\* and clients that hold one of the LineBoards and whose users type nothing.
InitLines ==
    \/ InitStart
    \/ Playing(MidBoard, 1)
    \/ \E b \in LineBoards : Playing(b, 0)

LinesSpec == InitLines /\ [][Next]_vars

\* ------------------------------------------------------------------ claims
\* The main goroutine is inside placePiece or movePiece, past the refusals and
\* not yet back from the last publishMove.
InAction(c) ==
    pc[c] \in {"place_append", "move_pop", "move_push", "a_sg_check", "a_sg_pub",
               "a_pm1", "a_check", "a_flip", "a_pm2"}

\* A step of onMessageReceived of client c that has decoded a snapshot: it
\* takes mu or gives it back.
ReceiveStep(c) == mu'[c] # mu[c]

\* The step that ends a successful action that found no winner: the return
\* from the second publishMove.
ActionReturns(c) == pc[c] = "a_pm2" /\ pc'[c] = "loop"

Last(seq) == seq[Len(seq)]

\* C1: the local mutation path and onMessageReceived are serialized: no step
\* of onMessageReceived replaces board or playerTurn of a client whose main
\* goroutine is between the validation of a local action and the return from
\* that action's last publish.
C1_Serialized ==
    [][\A c \in Clients : ReceiveStep(c) => ~InAction(c)]_vars

\* C3: a place or move is accepted only while playerTurn is the client's own
\* role, the piece placePiece appends is owned by that role and the piece
\* movePiece relocates is owned by that role.
C3_ActsAsOwnRole ==
    [][\A c \in Clients :
          /\ (pc[c] = "input" /\ pc'[c] \in {"place_append", "move_pop"})
                => playerTurn[c] = playerID[c]
          /\ (pc[c] = "place_append" /\ pc'[c] = "a_sg_check")
                => Top(board'[c][args[c].row][args[c].col]).Owner = playerID[c]
          /\ (pc[c] = "move_push" /\ pc'[c] = "a_sg_check")
                => Top(board'[c][args[c].toRow][args[c].toCol]).Owner = playerID[c]]_vars

\* C4: a client that has published or taken over a snapshot with a non-zero
\* Winner publishes nothing more and changes board and playerTurn no more.
C4_TerminatedIsFinal ==
    [][\A c \in Clients :
          sawWinner[c] # "no" => /\ board'[c] = board[c]
                                  /\ playerTurn'[c] = playerTurn[c]
                                  /\ Len(pubs'[c]) <= Len(pubs[c])]_vars

\* C8: a successful action that finds no winner has published exactly twice
\* when it returns: the changed board with the turn of the acting player, then
\* the same board with the other player's turn.
C8_TwoPublishes ==
    [][\A c \in Clients :
          ActionReturns(c) =>
              /\ Len(pubs'[c]) = 2
              /\ pubs'[c][1].state.PlayerTurn = playerID[c]
              /\ pubs'[c][2].state.Board = pubs'[c][1].state.Board
              /\ pubs'[c][2].state.PlayerTurn = 3 - playerID[c]]_vars

\* C9: when a successful action of the client in role r that finds no winner
\* returns, playerTurn and the PlayerTurn of the last snapshot the action
\* published are 3 - r; a refused action leaves playerTurn as it was and
\* publishes nothing.
C9_TurnHandedOver ==
    [][\A c \in Clients :
          /\ ActionReturns(c) =>
                /\ playerTurn'[c] = 3 - playerID[c]
                /\ Last(pubs'[c]).state.PlayerTurn = 3 - playerID[c]
          /\ (pc[c] = "input" /\ pc'[c] = "loop") =>
                /\ playerTurn'[c] = playerTurn[c]
                /\ pubs'[c] = <<>>]_vars

\* The eight lines of the board as sets of cells: three rows, three
\* columns, two diagonals.
Lines ==
    {{<<i, j>> : j \in Idx} : i \in Idx} \cup {{<<i, j>> : i \in Idx} : j \in Idx}
        \cup {{<<i, i>> : i \in Idx}, {<<i, 2 - i>> : i \in Idx}}

\* The owner of the top piece of a cell, 0 for an empty cell.
TopOwner(b, cell) ==
    IF b[cell[1]][cell[2]] = <<>> THEN 0 ELSE Top(b[cell[1]][cell[2]]).Owner

\* Some row, column or diagonal of b has three tops owned by p.
HasLine(b, p) == \E l \in Lines : \A cell \in l : TopOwner(b, cell) = p

\* C10: in every published snapshot Winner is non-zero iff some line of the
\* snapshot's own Board has three tops of one owner, and Winner is then the
\* owner of such a line.
C10_WinnerMatchesBoard ==
    \A c \in Clients : \A i \in 1..Len(pubs[c]) :
        LET st == pubs[c][i].state IN
        /\ st.Winner # 0 <=> \E p \in {1, 2} : HasLine(st.Board, p)
        /\ st.Winner # 0 => HasLine(st.Board, st.Winner)


\* The main goroutine is in its loop and in no action.
Active(c) == pc[c] \in {"loop", "checkwin", "input"}

\* Every client has joined, nothing is in flight and no action is under way.
Quiescent ==
    \A c \in Clients :
        Active(c) /\ Len(inbox[c]) = 0 /\ Len(loadq[c]) = 0 /\ cb[c] = "idle"

\* C2: with one client in role 1 and one in role 2, whenever every published
\* snapshot has been delivered and no local action is under way, board and
\* playerTurn of every client are those of the retained snapshot.
C2_Converged ==
    (Quiescent /\ Len(retained) = 1 /\ {playerID[c] : c \in Clients} = {1, 2})
        => \A c \in Clients :
              /\ board[c] = Unmarshal(retained[1]).Board
              /\ playerTurn[c] = Unmarshal(retained[1]).PlayerTurn

\* The step in which a joining client publishes its initial snapshot.
CreatesSession(c) == pc[c] = "c_sg_pub" /\ pc'[c] = "role"

\* C6: a joining client publishes an initial snapshot only if the topic holds
\* no retained snapshot, so that a join leaves an existing retained snapshot
\* as it is.
C6_JoinKeepsRetained ==
    [][\A c \in Clients :
          CreatesSession(c) => (Len(retained) = 0 \/ ~Decodes(retained[1]))]_vars

\* C7: the snapshot a client publishes when its bootstrapping ends by timeout
\* is the fresh one: nine empty stacks, PlayerTurn 1, Winner 0.
C7_TimeoutPublishesFresh ==
    [][\A c \in Clients :
          CreatesSession(c) => Last(pubs'[c]).state = GameState(EmptyBoard, 1, 0)]_vars


\* Fair delivery: a message in flight to a client is handed to
\* onMessageReceived, and onMessageReceived runs to its end.
FairDelivery == \A c \in Clients : WF_vars(onMessageReceived(c))

\* The join scenario, or a session under way with both players seated.
InitFair == InitStart \/ (Playing(MidBoard, MaxFairActions) /\ playerID["b"] = 2)

FairSpec == InitFair /\ [][Next]_vars /\ FairDelivery

\* C5: under fair delivery every client that has published or taken over a
\* snapshot with a non-zero Winner exits.
C5_WinnerEndsClient == \A c \in Clients : sawWinner[c] # "no" ~> pc[c] = "exited"

\* Player 1 has published a snapshot with a winner and exited, and the observer
\* has received one and exited.
C5_BothExited ==
    /\ sawWinner["a"] = "published" /\ pc["a"] = "exited"
    /\ sawWinner["b"] = "received" /\ playerID["b"] = 3 /\ pc["b"] = "exited"


\* The pieces of size s owned by p on b, buried ones included.
Pieces(b, p, s) ==
    { <<i, j, k>> \in Idx \X Idx \X (1..4) :
        k <= Len(b[i][j]) /\ b[i][j][k] = Gobblet(s, p) }

\* C11: a placement of a size of which the player has placed three is refused:
\* no board of a client holds more than three pieces of one size owned by one
\* player.
C11_BudgetRespected ==
    \A c \in Clients : \A p \in {1, 2} : \A s \in 1..3 :
        Cardinality(Pieces(board[c], p, s)) <= 3


\* The step in which main refuses the command it has read.
Refuses(c) == pc[c] = "input" /\ pc'[c] = "loop"

\* The step in which placePiece or movePiece passes its refusals.
Accepts(c) == pc[c] = "input" /\ pc'[c] \in {"place_append", "move_pop"}

\* A reason to refuse the command in on board b with turn t: an action that is
\* neither place nor move, a coordinate off the board, a size that is none of
\* 1, 2, 3, no piece on the source, a source top of the other player, a
\* target top that is not smaller than the piece.
Illegal(b, t, in) ==
    \/ in.action \notin {1, 2}
    \/ in.row \notin Idx \/ in.col \notin Idx
    \/ /\ in.action = 1
       /\ \/ in.size \notin 1..3
          \/ \E k \in 1..Len(b[in.row][in.col]) :
                k = Len(b[in.row][in.col]) /\ b[in.row][in.col][k].Size >= in.size
    \/ /\ in.action = 2
       /\ \/ in.toRow \notin Idx \/ in.toCol \notin Idx
          \/ b[in.row][in.col] = <<>>
          \/ Top(b[in.row][in.col]).Owner # t
          \/ /\ b[in.toRow][in.toCol] # <<>>
             /\ Top(b[in.toRow][in.toCol]).Size >= Top(b[in.row][in.col]).Size

\* C12: a command is accepted only if nothing is wrong with it; a refused
\* command leaves board and playerTurn as they were and publishes nothing, so
\* that every command refused before is refused again.
C12_RefusalChangesNothing ==
    [][\A c \in Clients :
          /\ Accepts(c) => ~Illegal(board[c], playerTurn[c], args'[c])
          /\ Refuses(c) =>
                /\ board' = board /\ playerTurn' = playerTurn
                /\ busVars' = busVars
                /\ \A in \in Inputs :
                      Illegal(board[c], playerTurn[c], in)
                          => Illegal(board'[c], playerTurn'[c], in)]_vars

\* Player 1 has typed a command on StackBoard and was refused.
C12_Refused ==
    /\ cmds < MaxRuleActions /\ pc["a"] = "loop" /\ pubs["a"] = <<>>
    /\ board["a"] = StackBoard /\ playerTurn["a"] = 1
    /\ retained = <<Marshal(GameState(StackBoard, 1, 0))>>


\* The board with every stack cut down to a size 1 piece of its top's owner.
TopsOnly(b) ==
    [i \in Idx |-> [j \in Idx |->
        IF b[i][j] = <<>> THEN <<>> ELSE <<Gobblet(1, Top(b[i][j]).Owner)>>]]

\* C13: checkWin returns a player only if some line has three tops of that
\* player, returns 0 iff no line has three tops of one player, and returns
\* the same for every board with the same owners of the tops; main leaves
\* the loop at its checkWin exactly when there is such a line.
C13_checkWinReadsLines ==
    \A c \in Clients :
        LET w == checkWin(board[c]) IN
        /\ w \in {0, 1, 2}
        /\ w # 0 => HasLine(board[c], w)
        /\ w = 0 <=> ~\E p \in {1, 2} : HasLine(board[c], p)
        /\ w = checkWin(TopsOnly(board[c]))

\* Player 1's client has left at main's checkWin on a board whose row 0 has
\* three tops of player 1, each covering a piece of player 2.
C13_LeftOnCoveredLine ==
    /\ pc["a"] = "exited" /\ sawWinner["a"] = "no"
    /\ \A j \in Idx : Len(board["a"][0][j]) = 2 /\ board["a"][0][j][1].Owner = 2
    /\ checkWin(board["a"]) = 1


\* The step in which placePiece appends the piece.
Places(c) == pc[c] = "place_append" /\ pc'[c] = "a_sg_check"

\* C14: with row and column on the board and a size of 1, 2 or 3, placePiece
\* passes its refusals iff the cell is empty or its top is smaller than the
\* piece; its append puts the piece, owned by the player whose turn it is, on
\* top of the cell, keeps what the cell held beneath it in the same order and
\* leaves the other eight cells as they are.
C14_PlaceOnSmaller ==
    [][\A c \in Clients :
          /\ \A in \in PlaceInputs :
                (in.row \in Idx /\ in.col \in Idx /\ in.size \in 1..3) =>
                    (placeOk(board[c], in) <=>
                        \/ board[c][in.row][in.col] = <<>>
                        \/ Top(board[c][in.row][in.col]).Size < in.size)
          /\ (Accepts(c) /\ args'[c].action = 1) => placeOk(board[c], args'[c])
          /\ Places(c) =>
                LET r == args[c].row
                    k == args[c].col
                    old == board[c][r][k]
                    new == board'[c][r][k]
                IN  /\ Len(new) = Len(old) + 1
                    /\ new[Len(new)] = Gobblet(args[c].size, playerTurn[c])
                    /\ SubSeq(new, 1, Len(old)) = old
                    /\ \A i, j \in Idx :
                          <<i, j>> # <<r, k>> => board'[c][i][j] = board[c][i][j]]_vars

\* Player 1 has placed a piece of size 2 on its piece of size 1 at (0,0).
C14_PlacedOnTop ==
    /\ pc["a"] = "a_sg_check" /\ args["a"].action = 1
    /\ board["a"][0][0] = <<Gobblet(1, 1), Gobblet(2, 1)>>


\* The steps in which movePiece takes the piece off the source and puts it on
\* the target.
Pops(c) == pc[c] = "move_pop" /\ pc'[c] = "move_push"
Pushes(c) == pc[c] = "move_push" /\ pc'[c] = "a_sg_check"

\* The main goroutine is inside movePiece, past the refusals and before the
\* piece is on the target, before and after the step.
Moving(c) == pc[c] \in {"move_pop", "move_push"} /\ pc'[c] = pc[c]

\* C15: movePiece passes its refusals only for the top of a non-empty source
\* that the turn player owns and a target that is empty or has a smaller top;
\* the move is an atomic transfer: the source loses exactly that top, the
\* target gains exactly that piece, the other cells stay as they are, and
\* nothing else changes the board from the refusals to the push.
C15_MoveIsTransfer ==
    [][\A c \in Clients :
          /\ (Accepts(c) /\ args'[c].action = 2) =>
                LET src == board[c][args'[c].row][args'[c].col]
                    dst == board[c][args'[c].toRow][args'[c].toCol]
                IN  /\ src # <<>> /\ top'[c] = Top(src)
                    /\ Top(src).Owner = playerTurn[c]
                    /\ dst = <<>> \/ Top(dst).Size < Top(src).Size
          /\ Pops(c) =>
                /\ board[c][args[c].row][args[c].col] =
                      Append(board'[c][args[c].row][args[c].col], top[c])
                /\ \A i, j \in Idx : <<i, j>> # <<args[c].row, args[c].col>>
                      => board'[c][i][j] = board[c][i][j]
          /\ Pushes(c) =>
                /\ board'[c][args[c].toRow][args[c].toCol] =
                      Append(board[c][args[c].toRow][args[c].toCol], top[c])
                /\ \A i, j \in Idx : <<i, j>> # <<args[c].toRow, args[c].toCol>>
                      => board'[c][i][j] = board[c][i][j]
          /\ Moving(c) => board'[c] = board[c]]_vars


\* The step in which onMessageReceived of client c is handed a payload that
\* json.Unmarshal refuses.
Drops(c) ==
    /\ cb[c] = "idle" /\ Len(inbox[c]) > 0 /\ ~Decodes(Head(inbox[c]))
    /\ inbox'[c] = Tail(inbox[c])

Applied(c) == cb[c] = "turn" /\ cb'[c] = "idle" /\ cbState[c].Winner = 0

\* C17: when onMessageReceived returns after a decoded snapshot with Winner =
\* 0, the client's board and playerTurn are the snapshot's Board and
\* PlayerTurn, whatever they were before (so that a second application of the
\* same snapshot changes nothing).
C17_ReplacedWholesale ==
    [][\A c \in Clients :
          Applied(c) =>
              /\ board'[c] = cbState[c].Board
              /\ playerTurn'[c] = cbState[c].PlayerTurn]_vars


\* Client a has joined a topic that retained the snapshot of an earlier
\* session, has timed out in loadGameState and published a fresh session, which
\* b has joined: the old snapshot and the echo of the fresh one are still
\* queued for a's onMessageReceived.
StaleQueue == <<Marshal(GameState(MidBoard, 1, 0)), Marshal(GameState(EmptyBoard, 1, 0))>>

\* The users type one command in that session.
InitLate == InitStart \/ Session(EmptyBoard, StaleQueue, 1)

LateSpec == InitLate /\ [][Next]_vars

\* The sizes of a stack grow strictly from the bottom to the top.
Increasing(stack) == \A k \in 1..(Len(stack) - 1) : stack[k].Size < stack[k+1].Size

Stacked(b) == \A i \in Idx, j \in Idx : Increasing(b[i][j])

\* C18: on every client's board and in every published snapshot, the sizes of
\* every stack grow strictly from the bottom to the top.
C18_StacksIncrease ==
    /\ \A c \in Clients : Stacked(board[c])
    /\ \A c \in Clients : \A k \in 1..Len(pubs[c]) : Stacked(pubs[c][k].state.Board)


\* Client c is past the wait-for-turn loop of main: it has seen playerTurn
\* equal to its role and is about to read, or is carrying out, an action.
PastWait(c) == pc[c] \in {"checkwin", "input"} \/ InAction(c)

\* C19: with one client in role 1 and the other in role 2, the two are never
\* both past the wait-for-turn loop.
C19_OneAtATime ==
    (playerID["a"] = 1 /\ playerID["b"] = 2) => ~(PastWait("a") /\ PastWait("b"))


\* The cell the action of client c puts a piece on, and the piece.
Target(c) ==
    IF args[c].action = 1 THEN <<args[c].row, args[c].col>>
                          ELSE <<args[c].toRow, args[c].toCol>>

\* The piece of c's action is the top of its target cell on the board b: a
\* piece of the acting player, and for a placement of the size typed.
Kept(b, c) ==
    LET stack == b[Target(c)[1]][Target(c)[2]]
    IN  /\ stack # <<>>
        /\ Top(stack).Owner = playerID[c]
        /\ args[c].action = 1 => Top(stack).Size = args[c].size

\* The tail of placePiece or movePiece of client c, after the piece is on.
Mutated(c) == pc[c] \in {"a_sg_check", "a_sg_pub", "a_pm1", "a_check", "a_flip", "a_pm2"}

\* C20: every snapshot that a successful placePiece or movePiece publishes has
\* the placed or moved piece on top of the target cell, and so has the
\* client's board when the action returns.
C20_NothingLost ==
    [][\A c \in Clients :
          /\ (Mutated(c) /\ Len(pubs'[c]) > Len(pubs[c]))
                 => Kept(Last(pubs'[c]).state.Board, c)
          /\ (Mutated(c) /\ pc'[c] = "loop") => Kept(board'[c], c)]_vars

====
